---- MODULE Spec2Model ----
(***************************************************************************)
(* Rating & paired-evaluation engine of amm-challenge:                     *)
(*   - EloRating           (amm_competition/competition/elo.py)            *)
(*   - paired_compare      (scripts/paired_eval.py)                        *)
(*   - run_search          (scripts/paired_eval.py)                        *)
(*                                                                         *)
(* Python floats are modelled as binary floating-point numbers m * 2^e     *)
(* with a significand of Prec bits (IEEE-754 binary64 has 53) and          *)
(* round-to-nearest, ties-to-even; the exponent is unbounded, so overflow  *)
(* and underflow are not modelled.  NaN is a separate value.               *)
(***************************************************************************)
EXTENDS Integers, Sequences, FiniteSets, TLC

\* ------------------------------------------------------------------------
\* Bounds of the model
\* ------------------------------------------------------------------------
\* significand width of the modelled floats
Prec == 10

\* ------------------------------------------------------------------------
\* Floating-point arithmetic
\* ------------------------------------------------------------------------
Abs(i) == IF i < 0 THEN -i ELSE i

Sgn(i) == IF i < 0 THEN -1 ELSE IF i > 0 THEN 1 ELSE 0

Pow2(n) == IF n <= 0 THEN 1 ELSE 2 ^ n

\* number of bits of n >= 0
BitLen8(n) ==
    IF n < 16
    THEN IF n < 4 THEN (IF n < 2 THEN n ELSE 2) ELSE (IF n < 8 THEN 3 ELSE 4)
    ELSE IF n < 64 THEN (IF n < 32 THEN 5 ELSE 6) ELSE (IF n < 128 THEN 7 ELSE 8)

BitLen(n) ==
    IF n < 256 THEN BitLen8(n)
    ELSE IF n < 65536 THEN 8 + BitLen8(n \div 256)
    ELSE IF n < 16777216 THEN 16 + BitLen8(n \div 65536)
    ELSE 24 + BitLen8(n \div 16777216)

\* precision used inside the library functions (pow, log, erfc)
WPrec == Prec + 3

NaN == [nan |-> TRUE, m |-> 0, e |-> 0]

Zero == [nan |-> FALSE, m |-> 0, e |-> 0]

IsNaN(x) == x.nan

\* canonical form of m * 2^e: m odd, or m = 0 and e = 0
RECURSIVE Norm(_, _)
Norm(m, e) ==
    IF m = 0 THEN Zero
    ELSE IF m % 2 = 0 THEN Norm(m \div 2, e + 1)
    ELSE [nan |-> FALSE, m |-> m, e |-> e]

\* position of the leading bit: 2^(Top(x)-1) <= |x| < 2^Top(x)
Top(x) == x.e + BitLen(Abs(x.m))

\* s * quo * 2^e with the lowest `drop` bits of quo rounded away, ties to
\* even; sticky: the exact value lies strictly above quo
RoundQuo(s, quo, sticky, e, drop) ==
    Norm(s * ((quo \div 2 ^ drop)
              + (IF \/ quo % 2 ^ drop > 2 ^ (drop - 1)
                    \/ /\ quo % 2 ^ drop = 2 ^ (drop - 1)
                       /\ (sticky \/ (quo \div 2 ^ drop) % 2 = 1)
                 THEN 1 ELSE 0)),
         e + drop)

\* s * (pp / qq) * 2^e rounded to prec bits, where pp / qq has prec + 1 or
\* prec + 2 bits before the binary point
RoundShifted(s, pp, qq, e, prec) ==
    RoundQuo(s, pp \div qq, pp % qq # 0, e,
             IF pp \div qq >= 2 ^ (prec + 1) THEN 2 ELSE 1)

RoundBy(s, p, q, e, prec, sh) ==
    RoundShifted(s, p * Pow2(sh), q * Pow2(-sh), e - sh, prec)

\* s * (p / q) * 2^e rounded to prec significant bits, ties to even
\* (s in {-1, 1}, p >= 0, q > 0)
RoundRat(s, p, q, e, prec) ==
    IF p = 0 THEN Zero
    ELSE RoundBy(s, p, q, e, prec, prec + 1 - (BitLen(p) - BitLen(q)))

\* the float nearest to the integer i
FromInt(i) == RoundRat(IF i < 0 THEN -1 ELSE 1, Abs(i), 1, 0, Prec)

\* the float nearest to the rational p / q (q > 0)
FromRat(p, q) == RoundRat(IF p < 0 THEN -1 ELSE 1, Abs(p), q, 0, Prec)

FNeg(x) == IF x.nan THEN NaN ELSE [x EXCEPT !.m = -x.m]

FAbs(x) == IF x.nan THEN NaN ELSE [x EXCEPT !.m = Abs(x.m)]

\* every float of precision prec at or next to a number with exponent e and
\* leading bit top, and every midpoint between two of them, is a multiple of
\* 2^Grain(e, top, prec)
Grain(e, top, prec) == IF e < top - prec - 2 THEN e ELSE top - prec - 2

\* a number below 2^g in magnitude rounds like any other such number of the
\* same sign when added to x
Sticky(y, g) == [nan |-> FALSE, m |-> Sgn(y.m), e |-> g - 1]

AddExact(x, y, prec) ==
    LET sum == x.m * Pow2(x.e - y.e) + y.m * Pow2(y.e - x.e)
    IN  RoundRat(IF sum < 0 THEN -1 ELSE 1, Abs(sum), 1,
                 IF x.e < y.e THEN x.e ELSE y.e, prec)

\* x + y for nonzero x and y with leading bits tx and ty
AddAligned(x, y, tx, ty, prec) ==
    AddExact(IF tx <= Grain(y.e, ty, prec) THEN Sticky(x, Grain(y.e, ty, prec)) ELSE x,
             IF ty <= Grain(x.e, tx, prec) THEN Sticky(y, Grain(x.e, tx, prec)) ELSE y,
             prec)

\* x + y (when one of them is Zero, m = 0 and e = 0, the sums of the fields
\* are the fields of the other)
FAddP(x, y, prec) ==
    IF x.nan \/ y.nan THEN NaN
    ELSE IF x.m = 0 \/ y.m = 0
         THEN RoundRat(Sgn(x.m + y.m), Abs(x.m + y.m), 1, x.e + y.e, prec)
    ELSE AddAligned(x, y, Top(x), Top(y), prec)

FMulP(x, y, prec) ==
    IF x.nan \/ y.nan THEN NaN
    ELSE RoundRat(IF Sgn(x.m) * Sgn(y.m) < 0 THEN -1 ELSE 1,
                  Abs(x.m) * Abs(y.m), 1, x.e + y.e, prec)

\* x / y; 0 / 0 is NaN (the only division by zero the modelled code performs
\* is numpy's mean of an empty array)
FDivP(x, y, prec) ==
    IF x.nan \/ y.nan \/ y.m = 0 THEN NaN
    ELSE RoundRat(IF Sgn(x.m) * Sgn(y.m) < 0 THEN -1 ELSE 1,
                  Abs(x.m), Abs(y.m), x.e - y.e, prec)

FAdd(x, y) == FAddP(x, y, Prec)

FSub(x, y) == FAddP(x, FNeg(y), Prec)

FMul(x, y) == FMulP(x, y, Prec)

FDiv(x, y) == FDivP(x, y, Prec)

\* sign of x - y for x and y of the same sign with leading bits tx and ty
CmpAligned(x, y, tx, ty) ==
    IF tx > ty THEN Sgn(x.m)
    ELSE IF tx < ty THEN -Sgn(x.m)
    ELSE Sgn(x.m * Pow2(x.e - y.e) - y.m * Pow2(y.e - x.e))

\* sign of the exact difference x - y (comparisons are exact)
FCmp(x, y) ==
    IF x.m = 0 THEN -Sgn(y.m)
    ELSE IF y.m = 0 THEN Sgn(x.m)
    ELSE IF Sgn(x.m) # Sgn(y.m) THEN Sgn(x.m)
    ELSE CmpAligned(x, y, Top(x), Top(y))

\* Python comparisons: every comparison with NaN is False
FLt(x, y) == ~x.nan /\ ~y.nan /\ FCmp(x, y) < 0

FLe(x, y) == ~x.nan /\ ~y.nan /\ FCmp(x, y) <= 0

FGt(x, y) == FLt(y, x)

FGe(x, y) == FLe(y, x)

FEq(x, y) == ~x.nan /\ ~y.nan /\ FCmp(x, y) = 0

\* largest r with r * r <= n
RECURSIVE ISqrtIter(_, _, _)
ISqrtIter(n, lo, hi) ==
    IF lo >= hi THEN lo
    ELSE LET mid == (lo + hi + 1) \div 2
         IN  IF mid * mid <= n THEN ISqrtIter(n, mid, hi)
             ELSE ISqrtIter(n, lo, mid - 1)

ISqrt(n) == ISqrtIter(n, 0, 46340)

\* sqrt(mm) * 2^e rounded, r the integer square root of mm
SqrtRound(mm, r, e, prec) ==
    IF r * r = mm THEN RoundRat(1, r, 1, e, prec)
    ELSE RoundRat(1, 2 * r + 1, 2, e, prec)

\* sqrt(m * 2^e) = sqrt(m * 2^k) * 2^((e - k) / 2) with e - k even
SqrtShift(m, e, k, prec) ==
    SqrtRound(m * Pow2(k), ISqrt(m * Pow2(k)), (e - k) \div 2, prec)

SqrtEven(m, e, k0, prec) == SqrtShift(m, e, k0 + ((e - k0) % 2), prec)

\* math.sqrt / numpy.sqrt of x >= 0, correctly rounded
SqrtScale(m, e, prec) == SqrtEven(m, e, 2 * prec + 3 - BitLen(m), prec)

FSqrt(x) ==
    IF x.nan \/ x.m < 0 THEN NaN
    ELSE IF x.m = 0 THEN Zero
    ELSE SqrtScale(x.m, x.e, Prec)

\* ------------------------------------------------------------------------
\* Library functions (Python math module): evaluated with WPrec bits and
\* rounded to Prec bits, so accurate to about one unit in the last place
\* ------------------------------------------------------------------------
Lit(m, e) == Norm(m, e)

One == Lit(1, 0)

Two == Lit(2, 0)

Half == Lit(1, -1)

Log2Of10 == Lit(54426, -14)

Log2OfE == Lit(47274, -15)

LnOf2 == Lit(45426, -16)

Sqrt2 == Lit(46341, -15)

\* 2^(j/8), j = 0..7
Pow2Eighths == << Lit(32768, -15), Lit(35734, -15), Lit(38968, -15),
                  Lit(42495, -15), Lit(46341, -15), Lit(50535, -15),
                  Lit(55109, -15), Lit(60097, -15) >>

WAdd(x, y) == FAddP(x, y, WPrec)

WSub(x, y) == FAddP(x, FNeg(y), WPrec)

WMul(x, y) == FMulP(x, y, WPrec)

WDiv(x, y) == FDivP(x, y, WPrec)

ToPrec(x) == IF x.nan THEN NaN ELSE RoundRat(Sgn(x.m), Abs(x.m), 1, x.e, Prec)

\* x * 2^k (exact)
Scale2(x, k) == IF x.nan \/ x.m = 0 THEN x ELSE [x EXCEPT !.e = x.e + k]

\* floor(x) as an integer
Floor(x) ==
    IF x.e >= 0 THEN x.m * Pow2(x.e)
    ELSE IF -x.e > 30 THEN (IF x.m < 0 THEN -1 ELSE 0)
    ELSE x.m \div Pow2(-x.e)

\* e^y for 0 <= y < 0.09: 1 + y(1 + y/2(1 + y/3(1 + y/4)))
ExpSmall(y) ==
    LET t4 == WAdd(One, WDiv(y, Lit(4, 0)))
        t3 == WAdd(One, WMul(WDiv(y, Lit(3, 0)), t4))
        t2 == WAdd(One, WMul(WDiv(y, Two), t3))
    IN  WAdd(One, WMul(y, t2))

\* 2^k0 * 2^r for 0 <= r < 1 with j0 = floor(8 r): 2^(j0/8) * e^((r - j0/8) ln 2)
Pow2Table(k0, r, j0) ==
    IF j0 > 7 THEN Scale2(One, k0 + 1)
    ELSE Scale2(WMul(Pow2Eighths[j0 + 1],
                     ExpSmall(WMul(WSub(r, Lit(j0, -3)), LnOf2))), k0)

Pow2Frac(k0, r) == Pow2Table(k0, r, Floor(Scale2(r, 3)))

Pow2Split(t, k0) == Pow2Frac(k0, WSub(t, Lit(k0, 0)))

\* 2^t with WPrec bits
WPow2(t) == IF t.nan THEN NaN ELSE Pow2Split(t, Floor(t))

\* 10 ** x
Pow10(x) == ToPrec(WPow2(WMul(x, Log2Of10)))

\* 2u(1 + u^2/3 + u^4/5 + u^6/7), u2 = u^2
LnSeries(u, u2) ==
    WMul(Scale2(u, 1),
         WAdd(One, WMul(u2, WAdd(FromRat(1, 3),
                                 WMul(u2, WAdd(FromRat(1, 5),
                                               WMul(u2, FromRat(1, 7))))))))

LnOfRatio(u) == LnSeries(u, WMul(u, u))

\* ln f for f in [sqrt(1/2), sqrt(2)]: the series in u = (f - 1) / (f + 1)
LnNearOne(f) == LnOfRatio(WDiv(WSub(f, One), WAdd(f, One)))

\* ln(f0 * 2^k0) for f0 in [1, 2)
LnSplit(f0, k0, hi) ==
    ToPrec(WAdd(WMul(Lit(IF hi THEN k0 + 1 ELSE k0, 0), LnOf2),
                LnNearOne(IF hi THEN Scale2(f0, -1) ELSE f0)))

LnScaled(z, k0) == LnSplit(Scale2(z, -k0), k0, FCmp(Scale2(z, -k0), Sqrt2) > 0)

\* math.log(z) for z > 0
Ln(z) == IF z.nan THEN NaN ELSE LnScaled(z, Top(z) - 1)

\* a value clamped to the range [0, 1] of erfc on u >= 0
ErfcClamp(u, v) ==
    IF u.m = 0 \/ FCmp(v, One) > 0 THEN One
    ELSE IF v.m < 0 THEN Zero ELSE v

\* s (a1 + s (a2 + s (a3 + s (a4 + s a5)))) * ex
ErfcPoly(u, s, ex) ==
    ErfcClamp(u,
        WMul(WMul(WAdd(WMul(WSub(WMul(WAdd(WMul(WSub(WMul(Lit(34780, -15), s),
                                                     Lit(47617, -15)), s),
                                           Lit(46577, -15)), s),
                                 Lit(37290, -17)), s),
                       Lit(33401, -17)), s), ex))

\* erfc(u) underflows to 0.0 for u >= 2^ErfcUnderflow = 32 (for u > 27 in
\* binary64)
ErfcUnderflow == 5

\* erfc(u) for u >= 0 (Abramowitz & Stegun 7.1.26): s = 1 / (1 + p u),
\* ex = e^(-u^2)
ErfcPos(u) ==
    IF Top(u) > ErfcUnderflow THEN Zero
    ELSE ErfcPoly(u, WDiv(One, WAdd(One, WMul(Lit(42938, -17), u))),
             WPow2(WMul(FNeg(WMul(u, u)), Log2OfE)))

\* math.erfc(x)
Erfc(x) ==
    IF x.nan THEN NaN
    ELSE IF x.m >= 0 THEN ToPrec(ErfcPos(x))
    ELSE ToPrec(WSub(Two, ErfcPos(FNeg(x))))

\* ------------------------------------------------------------------------
\* More bounds
\* ------------------------------------------------------------------------
\* scores of a match are drawn from 0..MaxScore (-1..MaxScore in SpecInt)
MaxScore == 2

\* number of calls made on one EloRating object after its history
MaxOps == 1

\* names passed to the calls made after the history ("c" and "d" appear in
\* histories only)
Names == {"a", "b"}

\* Histories of an EloRating object: `draws` drawn matches (1 : 1) between
\* "a" and "b", followed by the update_ratings calls of `then`
Histories ==
    { [draws |-> 0,  then |-> << >>],
      [draws |-> 9,  then |-> << >>],
      [draws |-> 29, then |-> << >>],
      [draws |-> 9,  then |-> << <<"a", "b", 2, 0>> >>],
      [draws |-> 29, then |-> << <<"b", "a", 2, 1>> >>],
      [draws |-> 1,  then |-> << <<"c", "a", 0, 0>> >>],
      [draws |-> 1,  then |-> << <<"c", "d", 2, 0>> >>],
      [draws |-> 0,  then |-> << <<"b", "c", 1, 2>> >>],
      [draws |-> 0,  then |-> << <<"b", "c", 2, 0>>, <<"a", "b", 0, 1>> >>] }

\* ------------------------------------------------------------------------
\* State
\* ------------------------------------------------------------------------
VARIABLES
    initial_rating,   \* EloRating.initial_rating
    k_factor,         \* EloRating.k_factor
    mov_factor,       \* EloRating.mov_factor
    ratings,          \* EloRating.ratings: the PlayerRating records, in insertion order
    before,           \* the value of ratings when the last call was made
    call,             \* the last call made and its arguments
    ret,              \* what the last call returned
    raised,           \* TRUE iff the last call raised an exception
    nOps,             \* number of calls made so far
    paired,           \* the last paired_compare call: its arguments and its result
    applied,          \* the last call of a pure method of EloRating, with its result
    earlier,          \* the call of a pure method before that one
    env,              \* run_search: env[c] is TRUE iff candidate c is a viable strategy
    stage,            \* run_search: the stage being executed
    error,            \* run_search: the exception that ended the run, if any
    idx,              \* run_search: index of the current stage's loop
    base_edges,       \* run_search: per-seed edges of the Stage-0 baseline run
    base_mean,        \* run_search: mean of base_edges (0.0 until Stage 0 has run)
    stage1_results,
    promoted,
    base_edges2,
    stage2_results,
    promoted2,
    base_edges3,
    stage3_results,
    requests,         \* the runner.run_match calls made so far, in order
    report            \* what _print_final_summary printed

eloVars == << initial_rating, k_factor, mov_factor, ratings, before, call, ret, raised, nOps >>

pcVars == << paired, applied, earlier >>

searchVars == << env, stage, error, idx, base_edges, base_mean, stage1_results, promoted,
                 base_edges2, stage2_results, promoted2, base_edges3, stage3_results,
                 requests, report >>

vars == << eloVars, pcVars, searchVars >>

\* ------------------------------------------------------------------------
\* EloRating
\* ------------------------------------------------------------------------
PlayerRating(name, rating) ==
    [name |-> name, rating |-> rating, matches_played |-> 0,
     wins |-> 0, losses |-> 0, draws |-> 0]

KnownNames(rs) == {rs[i].name : i \in 1..Len(rs)}

IndexOf(rs, name) == CHOOSE i \in 1..Len(rs) : rs[i].name = name

Player(rs, name) == rs[IndexOf(rs, name)]

\* get_rating that stores a new record whether or not the name is known
GetRatingAlways(rs, name, init) ==
    IF name \in KnownNames(rs)
    THEN [rs EXCEPT ![IndexOf(rs, name)] = PlayerRating(name, init)]
    ELSE Append(rs, PlayerRating(name, init))

\* get_rating: the rating map after the call
GetRating(rs, name, init) ==
    IF name \in KnownNames(rs) THEN rs
    ELSE Append(rs, PlayerRating(name, init))

\* expected_score without the 1.0 of the denominator
ExpectedScoreNoOne(rating_a, rating_b) ==
    FDiv(One, Pow10(FDiv(FSub(rating_b, rating_a), FromInt(400))))

\* expected_score
ExpectedScore(rating_a, rating_b) ==
    FDiv(One, FAdd(One, Pow10(FDiv(FSub(rating_b, rating_a), FromInt(400)))))

\* get_k_factor with the first threshold off by one (<= 10 for < 10)
GetKFactorInclusive(k, player) ==
    IF player.matches_played <= 10 THEN FMul(k, FromRat(3, 2))
    ELSE IF player.matches_played < 30 THEN k
    ELSE FMul(k, FromRat(3, 4))

\* get_k_factor
GetKFactor(k, player) ==
    IF player.matches_played < 10 THEN FMul(k, FromRat(3, 2))
    ELSE IF player.matches_played < 30 THEN k
    ELSE FMul(k, FromRat(3, 4))

\* the argument of math.log in margin_multiplier
MarginLogArg(winner_score, loser_score, total_games) ==
    LET diff   == winner_score - loser_score
        margin == IF total_games > 0 THEN FromRat(diff, total_games)
                  ELSE FromRat(-diff, -total_games)
    IN  FAdd(One, FMul(margin, Two))

\* margin_multiplier raises ValueError (math domain error) when the argument
\* of math.log is not positive
MarginRaises(winner_score, loser_score, total_games) ==
    /\ total_games # 0
    /\ FLe(MarginLogArg(winner_score, loser_score, total_games), Zero)

\* margin_multiplier without the leading 1.0
MarginMultiplierNoFloor(mov, winner_score, loser_score, total_games) ==
    IF total_games = 0 THEN One
    ELSE FMul(mov, Ln(MarginLogArg(winner_score, loser_score, total_games)))

\* margin_multiplier, when it returns
MarginMultiplier(mov, winner_score, loser_score, total_games) ==
    IF total_games = 0 THEN One
    ELSE FAdd(One, FMul(mov, Ln(MarginLogArg(winner_score, loser_score, total_games))))

\* update_ratings without the early return
NoGamesIgnored(total_games) == FALSE

\* update_ratings returns early when no game was played
NoGames(total_games) == total_games = 0

\* actual scores with a tie scored as a win of the first player
ActualTieAsWin(score_a, score_b) ==
    IF score_a >= score_b THEN << One, Zero >> ELSE << Zero, One >>

\* actual scores of the two sides
Actual(score_a, score_b) ==
    IF score_a > score_b THEN << One, Zero >>
    ELSE IF score_b > score_a THEN << Zero, One >>
    ELSE << Half, Half >>

\* outcome recording that credits the win to the lower scorer
RecordOutcomeSwapped(rs, ia, ib, score_a, score_b) ==
    IF score_a > score_b THEN
        LET r1 == [rs EXCEPT ![ib].wins = @ + 1]
        IN  [r1 EXCEPT ![ia].losses = @ + 1]
    ELSE IF score_b > score_a THEN
        LET r1 == [rs EXCEPT ![ib].losses = @ + 1]
        IN  [r1 EXCEPT ![ia].wins = @ + 1]
    ELSE
        LET r1 == [rs EXCEPT ![ia].draws = @ + 1]
        IN  [r1 EXCEPT ![ib].draws = @ + 1]

\* outcome recording that forgets the loser's loss
RecordOutcomeNoLoss(rs, ia, ib, score_a, score_b) ==
    IF score_a > score_b THEN [rs EXCEPT ![ia].wins = @ + 1]
    ELSE IF score_b > score_a THEN [rs EXCEPT ![ib].wins = @ + 1]
    ELSE LET r1 == [rs EXCEPT ![ia].draws = @ + 1]
         IN  [r1 EXCEPT ![ib].draws = @ + 1]

\* the win / loss / draw counters after the outcome is recorded; ia and ib
\* index the two PlayerRating objects (the same object when ia = ib)
RecordOutcome(rs, ia, ib, score_a, score_b) ==
    IF score_a > score_b THEN
        LET r1 == [rs EXCEPT ![ia].wins = @ + 1]
        IN  [r1 EXCEPT ![ib].losses = @ + 1]
    ELSE IF score_b > score_a THEN
        LET r1 == [rs EXCEPT ![ia].losses = @ + 1]
        IN  [r1 EXCEPT ![ib].wins = @ + 1]
    ELSE
        LET r1 == [rs EXCEPT ![ia].draws = @ + 1]
        IN  [r1 EXCEPT ![ib].draws = @ + 1]

\* does the margin_multiplier call of update_ratings raise?
UpdateRaises(score_a, score_b) ==
    IF score_a > score_b THEN MarginRaises(score_a, score_b, score_a + score_b)
    ELSE IF score_b > score_a THEN MarginRaises(score_b, score_a, score_a + score_b)
    ELSE FALSE

Multiplier(mov, score_a, score_b) ==
    IF score_a > score_b THEN MarginMultiplier(mov, score_a, score_b, score_a + score_b)
    ELSE IF score_b > score_a THEN MarginMultiplier(mov, score_b, score_a, score_a + score_b)
    ELSE One

\* expected_b taken to be expected_a
ExpectedBSame(expected_a) == expected_a

\* expected_b of update_ratings
ExpectedB(expected_a) == FSub(One, expected_a)

\* the rating updates with the K-factors taken after the match counts were
\* incremented
ApplyRatingsCountFirst(rs, ia, ib, k, multiplier, actual) ==
    LET expected_a == ExpectedScore(rs[ia].rating, rs[ib].rating)
        expected_b == ExpectedB(expected_a)
        r1  == [rs EXCEPT ![ia].matches_played = @ + 1]
        r2  == [r1 EXCEPT ![ib].matches_played = @ + 1]
        k_a == GetKFactor(k, r2[ia])
        k_b == GetKFactor(k, r2[ib])
        r3  == [r2 EXCEPT ![ia].rating =
                   FAdd(@, FMul(FMul(k_a, multiplier), FSub(actual[1], expected_a)))]
    IN  [r3 EXCEPT ![ib].rating =
            FAdd(@, FMul(FMul(k_b, multiplier), FSub(actual[2], expected_b)))]

\* the two rating updates and the two match-count increments
ApplyRatings(rs, ia, ib, k, multiplier, actual) ==
    LET expected_a == ExpectedScore(rs[ia].rating, rs[ib].rating)
        expected_b == ExpectedB(expected_a)
        k_a == GetKFactor(k, rs[ia])
        k_b == GetKFactor(k, rs[ib])
        r1  == [rs EXCEPT ![ia].rating =
                   FAdd(@, FMul(FMul(k_a, multiplier), FSub(actual[1], expected_a)))]
        r2  == [r1 EXCEPT ![ib].rating =
                   FAdd(@, FMul(FMul(k_b, multiplier), FSub(actual[2], expected_b)))]
        r3  == [r2 EXCEPT ![ia].matches_played = @ + 1]
    IN  [r3 EXCEPT ![ib].matches_played = @ + 1]

\* update_ratings: the rating map after the call (also when it raised)
UpdateRatingsMap(rs, init, k, mov, player_a, player_b, score_a, score_b) ==
    LET r0 == GetRating(GetRating(rs, player_a, init), player_b, init)
        ia == IndexOf(r0, player_a)
        ib == IndexOf(r0, player_b)
    IN  IF NoGames(score_a + score_b) THEN r0
        ELSE LET r1 == RecordOutcome(r0, ia, ib, score_a, score_b)
             IN  IF UpdateRaises(score_a, score_b) THEN r1
                 ELSE ApplyRatings(r1, ia, ib, k, Multiplier(mov, score_a, score_b),
                                   Actual(score_a, score_b))

\* expected_a and expected_b of an update_ratings call on the players player_a
\* and player_b of rs; none when the call returns early or raises
ExpectedPair(expected_a) == << expected_a, ExpectedB(expected_a) >>

ExpectedOf(rs, player_a, player_b, score_a, score_b) ==
    IF NoGames(score_a + score_b) \/ UpdateRaises(score_a, score_b) THEN << >>
    ELSE ExpectedPair(ExpectedScore(Player(rs, player_a).rating,
                                    Player(rs, player_b).rating))

\* a sort that puts a player before the players of equal rating
RECURSIVE InsertBeforeEqual(_, _)
InsertBeforeEqual(sorted, p) ==
    IF sorted = << >> THEN << p >>
    ELSE IF FLe(Head(sorted).rating, p.rating) THEN << p >> \o sorted
    ELSE << Head(sorted) >> \o InsertBeforeEqual(Tail(sorted), p)

\* get_leaderboard: a stable sort by rating, highest first
RECURSIVE InsertByRating(_, _)
InsertByRating(sorted, p) ==
    IF sorted = << >> THEN << p >>
    ELSE IF FLt(Head(sorted).rating, p.rating) THEN << p >> \o sorted
    ELSE << Head(sorted) >> \o InsertByRating(Tail(sorted), p)

RECURSIVE SortByRating(_, _)
SortByRating(rs, n) ==
    IF n = 0 THEN << >>
    ELSE InsertByRating(SortByRating(rs, n - 1), rs[n])

GetLeaderboard(rs) == SortByRating(rs, Len(rs))

\* ------------------------------------------------------------------------
\* Operations on an EloRating object
\* ------------------------------------------------------------------------
NoCall == [op |-> "none"]

\* run_search has not been started
IdleSearch ==
    /\ env = << >>
    /\ stage = "idle"
    /\ error = "none"
    /\ idx = 0
    /\ base_edges = << >>
    /\ base_mean = Zero
    /\ stage1_results = << >>
    /\ promoted = << >>
    /\ base_edges2 = << >>
    /\ stage2_results = << >>
    /\ promoted2 = << >>
    /\ base_edges3 = << >>
    /\ stage3_results = << >>
    /\ requests = << >>
    /\ report = NoCall

\* the rating map after n drawn matches (1 : 1) between "a" and "b" on a new
\* object: a draw between equally rated players adds 0 to both ratings
AfterDraws(init, n) ==
    IF n = 0 THEN << >>
    ELSE << [PlayerRating("a", init) EXCEPT !.matches_played = n, !.draws = n],
            [PlayerRating("b", init) EXCEPT !.matches_played = n, !.draws = n] >>

\* the rating map after the update_ratings calls of the sequence ms
RECURSIVE AfterMatches(_, _, _, _, _)
AfterMatches(rs, init, k, mov, ms) ==
    IF ms = << >> THEN rs
    ELSE AfterMatches(UpdateRatingsMap(rs, init, k, mov, Head(ms)[1], Head(ms)[2],
                                       Head(ms)[3], Head(ms)[4]),
                      init, k, mov, Tail(ms))

AfterHistory(h, init, k, mov) ==
    AfterMatches(AfterDraws(init, h.draws), init, k, mov, h.then)

InitElo ==
    /\ initial_rating = FromInt(1500)
    /\ k_factor \in {FromInt(32), FromInt(20)}
    /\ mov_factor = Half
    /\ \E h \in Histories :
           ratings = AfterHistory(h, initial_rating, k_factor, mov_factor)
    /\ before = ratings
    /\ call = NoCall
    /\ ret = << >>
    /\ raised = FALSE
    /\ nOps = 0
    /\ paired = NoCall
    /\ applied = NoCall
    /\ earlier = NoCall
    /\ IdleSearch

DoGetRating(name) ==
    /\ nOps < MaxOps
    /\ before' = ratings
    /\ ratings' = GetRating(ratings, name, initial_rating)
    /\ call' = [op |-> "get_rating", name |-> name]
    /\ ret' = << Player(ratings', name) >>
    /\ raised' = FALSE
    /\ nOps' = nOps + 1
    /\ UNCHANGED << initial_rating, k_factor, mov_factor, pcVars, searchVars >>

DoUpdateRatings(player_a, player_b, score_a, score_b) ==
    /\ nOps < MaxOps
    /\ before' = ratings
    /\ ratings' = UpdateRatingsMap(ratings, initial_rating, k_factor, mov_factor,
                                   player_a, player_b, score_a, score_b)
    /\ call' = [op |-> "update_ratings", player_a |-> player_a, player_b |-> player_b,
                score_a |-> score_a, score_b |-> score_b]
    /\ raised' = (~NoGames(score_a + score_b) /\ UpdateRaises(score_a, score_b))
    /\ ret' = IF raised' THEN << >>
              ELSE << Player(ratings', player_a).rating, Player(ratings', player_b).rating >>
    /\ nOps' = nOps + 1
    /\ UNCHANGED << initial_rating, k_factor, mov_factor, pcVars, searchVars >>

DoGetKFactor(name) ==
    /\ nOps < MaxOps
    /\ before' = ratings
    /\ name \in KnownNames(ratings)
    /\ call' = [op |-> "get_k_factor", name |-> name]
    /\ ret' = << GetKFactor(k_factor, Player(ratings, name)) >>
    /\ raised' = FALSE
    /\ nOps' = nOps + 1
    /\ UNCHANGED << initial_rating, k_factor, mov_factor, ratings, pcVars, searchVars >>

\* get_leaderboard that sorts the stored players in place
DoGetLeaderboardInPlace ==
    /\ nOps < MaxOps
    /\ before' = ratings
    /\ call' = [op |-> "get_leaderboard"]
    /\ ret' = GetLeaderboard(ratings)
    /\ ratings' = GetLeaderboard(ratings)
    /\ raised' = FALSE
    /\ nOps' = nOps + 1
    /\ UNCHANGED << initial_rating, k_factor, mov_factor, pcVars, searchVars >>

DoGetLeaderboard ==
    /\ nOps < MaxOps
    /\ before' = ratings
    /\ call' = [op |-> "get_leaderboard"]
    /\ ret' = GetLeaderboard(ratings)
    /\ raised' = FALSE
    /\ nOps' = nOps + 1
    /\ UNCHANGED << initial_rating, k_factor, mov_factor, ratings, pcVars, searchVars >>

Scores == 0..MaxScore

IntScores == (-1)..1

NextElo ==
    \/ \E name \in Names : DoGetRating(name)
    \/ \E a \in Names, b \in Names, sa \in Scores, sb \in Scores :
           DoUpdateRatings(a, b, sa, sb)
    \/ \E name \in Names : DoGetKFactor(name)
    \/ DoGetLeaderboard

NextEloInt ==
    \/ \E name \in Names : DoGetRating(name)
    \/ \E a \in Names, b \in Names, sa \in IntScores, sb \in IntScores :
           DoUpdateRatings(a, b, sa, sb)
    \/ \E name \in Names : DoGetKFactor(name)
    \/ DoGetLeaderboard

\* an EloRating object driven with scores that are game counts
Spec == InitElo /\ [][NextElo]_vars

\* an EloRating object with the default K-factor
InitEloInt == InitElo /\ k_factor = FromInt(32)

\* an EloRating object driven with arbitrary integer scores
SpecInt == InitEloInt /\ [][NextEloInt]_vars

\* histories that leave "a" and "b" in the same or in different K-factor
\* brackets
BracketHistories ==
    { [draws |-> 0,  then |-> << >>],
      [draws |-> 9,  then |-> << <<"a", "c", 1, 1>> >>],
      [draws |-> 9,  then |-> << <<"a", "b", 1, 0>> >>],
      [draws |-> 29, then |-> << <<"a", "c", 2, 0>> >>],
      [draws |-> 29, then |-> << <<"b", "a", 1, 0>> >>] }

InitBrackets ==
    /\ initial_rating = FromInt(1500)
    /\ k_factor = FromInt(32)
    /\ mov_factor = Half
    /\ \E h \in BracketHistories :
           ratings = AfterHistory(h, initial_rating, k_factor, mov_factor)
    /\ before = ratings
    /\ call = NoCall
    /\ ret = << >>
    /\ raised = FALSE
    /\ nOps = 0
    /\ paired = NoCall
    /\ applied = NoCall
    /\ earlier = NoCall
    /\ IdleSearch

NextBrackets ==
    \E a \in Names, b \in Names, sa \in Scores, sb \in Scores :
        DoUpdateRatings(a, b, sa, sb)

\* update_ratings on players in equal and in different K-factor brackets
SpecBrackets == InitBrackets /\ [][NextBrackets]_vars

\* ------------------------------------------------------------------------
\* paired_compare
\* ------------------------------------------------------------------------
\* number of seeds (length of the edge arrays) of a paired_compare call
MaxSeeds == 3

\* per-seed edges; 343 is a value whose triple is not a float of 10 bits
EdgeValues == {Zero, One, Lit(343, 0)}

EdgeArrays(n) == [1..n -> EdgeValues]

\* cand_edges - base_edges (numpy, elementwise)
Deltas(cand, base) ==
    [i \in 1..Len(cand) |-> FSub(cand[i], base[i])]

\* numpy's sum of a short array: left to right, starting from 0.0
RECURSIVE SumSeq(_)
SumSeq(xs) ==
    IF xs = << >> THEN Zero
    ELSE FAdd(SumSeq(SubSeq(xs, 1, Len(xs) - 1)), xs[Len(xs)])

\* np.mean: sum / n, NaN (0.0 / 0) for an empty array
Mean(xs) == FDiv(SumSeq(xs), FromInt(Len(xs)))

\* (x - mean)^2, elementwise
SqDev(xs, mean) ==
    [i \in 1..Len(xs) |-> FMul(FSub(xs[i], mean), FSub(xs[i], mean))]

\* np.std(xs, ddof=1) for len(xs) > 1
Std1(xs) == FSqrt(FDiv(SumSeq(SqDev(xs, Mean(xs))), FromInt(Len(xs) - 1)))

\* _normal_cdf
NormalCdf(x) == FMul(Half, Erfc(FDiv(FNeg(x), FSqrt(Two))))

\* a win rate that counts a seed with equal edges as a win
WinRateWithTies(deltas) ==
    FDiv(FromInt(Cardinality({i \in 1..Len(deltas) : FGe(deltas[i], Zero)})),
         FromInt(Len(deltas)))

\* np.mean(deltas > 0)
WinRate(deltas) ==
    FDiv(FromInt(Cardinality({i \in 1..Len(deltas) : FGt(deltas[i], Zero)})),
         FromInt(Len(deltas)))

\* p_value
PValue(se, t_stat) ==
    IF FGt(se, Zero) THEN FMul(Two, FSub(One, NormalCdf(FAbs(t_stat))))
    ELSE One

\* t_stat
TStat(mean_delta, se) == IF FGt(se, Zero) THEN FDiv(mean_delta, se) ELSE Zero

\* se
StdErr(deltas, n) ==
    IF n > 0 THEN FDiv(IF n > 1 THEN Std1(deltas) ELSE Zero, FSqrt(FromInt(n)))
    ELSE Zero

\* the dict paired_compare returns
PairedResult(n, mean_c, mean_b, mean_delta, se, t_stat, win_rate) ==
    [n |-> n, cand_mean |-> mean_c, base_mean |-> mean_b,
     mean_delta |-> mean_delta, se |-> se, t_stat |-> t_stat,
     p_value |-> PValue(se, t_stat), win_rate |-> win_rate]

PairedStats(cand, base, deltas, mean_delta, se) ==
    PairedResult(Len(cand), Mean(cand), Mean(base), mean_delta,
                 se, TStat(mean_delta, se), WinRate(deltas))

PairedOfDeltas(cand, base, deltas) ==
    PairedStats(cand, base, deltas, Mean(deltas),
                StdErr(deltas, Len(cand)))

\* paired_compare
PairedCompare(cand, base) ==
    PairedOfDeltas(cand, base, Deltas(cand, base))

\* an EloRating object nobody calls
IdleElo ==
    /\ initial_rating = FromInt(1500)
    /\ k_factor = FromInt(32)
    /\ mov_factor = Half
    /\ ratings = << >>
    /\ before = << >>
    /\ call = NoCall
    /\ ret = << >>
    /\ raised = FALSE
    /\ nOps = 0

InitPC ==
    /\ IdleElo
    /\ paired = NoCall
    /\ applied = NoCall
    /\ earlier = NoCall
    /\ IdleSearch

DoPairedCompare(cand, base) ==
    /\ paired = NoCall
    /\ paired' = [op |-> "paired_compare", cand_edges |-> cand,
                  base_edges |-> base,
                  result |-> PairedCompare(cand, base)]
    /\ UNCHANGED << eloVars, applied, earlier, searchVars >>

\* the known case: cand = [10, 12, 8], base = [8, 8, 8]
KnownCand == << FromInt(10), FromInt(12), FromInt(8) >>

KnownBase == << FromInt(8), FromInt(8), FromInt(8) >>

NextPC ==
    \/ \E n \in 0..MaxSeeds : \E cand \in EdgeArrays(n), base \in EdgeArrays(n) :
           DoPairedCompare(cand, base)
    \/ DoPairedCompare(KnownCand, KnownBase)

\* one paired_compare call on two edge arrays of equal length
SpecPC == InitPC /\ [][NextPC]_vars

\* ------------------------------------------------------------------------
\* margin_multiplier and expected_score called directly
\* ------------------------------------------------------------------------
\* largest game count passed to margin_multiplier
MaxGames == 4

\* values of mov_factor (the default is 0.5)
MovFactors == {Zero, Half, One, Lit(3, 0), FNeg(Half)}

InitMargin ==
    /\ initial_rating = FromInt(1500)
    /\ k_factor = FromInt(32)
    /\ mov_factor \in MovFactors
    /\ ratings = << >>
    /\ before = << >>
    /\ call = NoCall
    /\ ret = << >>
    /\ raised = FALSE
    /\ nOps = 0
    /\ paired = NoCall
    /\ applied = NoCall
    /\ earlier = NoCall
    /\ IdleSearch

\* at most two calls are made on one object
DoMarginMultiplier(winner_score, loser_score, total_games) ==
    /\ earlier = NoCall
    /\ applied' = [op |-> "margin_multiplier", winner_score |-> winner_score,
                   loser_score |-> loser_score, total_games |-> total_games,
                   raised |-> MarginRaises(winner_score, loser_score, total_games),
                   result |-> IF MarginRaises(winner_score, loser_score, total_games)
                              THEN NaN
                              ELSE MarginMultiplier(mov_factor, winner_score,
                                                    loser_score, total_games)]
    /\ earlier' = applied
    /\ UNCHANGED << eloVars, paired, searchVars >>

NextMargin ==
    \E w \in 0..MaxGames, l \in 0..MaxGames : \E t \in {w + l, MaxGames} :
        DoMarginMultiplier(w, l, t)

\* margin_multiplier called on game counts, one call after another
SpecMargin == InitMargin /\ [][NextMargin]_vars

\* ratings passed to expected_score
RatingValues == {FromInt(r) : r \in {0, 1300, 1326, 1404, 1500, 1600}}

\* at most two calls are made on one object
DoExpectedScore(rating_a, rating_b) ==
    /\ earlier = NoCall
    /\ call = NoCall
    /\ applied' = [op |-> "expected_score", rating_a |-> rating_a,
                   rating_b |-> rating_b,
                   result |-> ExpectedScore(rating_a, rating_b)]
    /\ earlier' = applied
    /\ UNCHANGED << eloVars, paired, searchVars >>

\* expected_score is called directly, or by one update_ratings call
NextExpected ==
    \/ \E rating_a \in RatingValues, rating_b \in RatingValues :
           DoExpectedScore(rating_a, rating_b)
    \/ /\ applied = NoCall
       /\ \E a \in Names, b \in Names, sa \in Scores, sb \in Scores :
              DoUpdateRatings(a, b, sa, sb)

SpecExpected == InitEloInt /\ [][NextExpected]_vars

\* one call of a method of an EloRating object
NextAny ==
    \/ applied = NoCall /\ NextElo
    \/ /\ applied = NoCall
       /\ \E rating_a \in RatingValues, rating_b \in RatingValues :
              DoExpectedScore(rating_a, rating_b)
    \/ /\ applied = NoCall
       /\ call = NoCall
       /\ \E w \in 0..MaxGames, l \in 0..MaxGames : DoMarginMultiplier(w, l, w + l)

SpecAny == InitEloInt /\ [][NextAny]_vars

\* ------------------------------------------------------------------------
\* run_search
\* ------------------------------------------------------------------------
\* size of the candidate population (_build_candidates builds 18)
NumCands == 9

\* stage1_sims, stage2_sims, stage3_sims (200, 500 and 1000 by default)
Stage1Sims == 1

Stage2Sims == 2

Stage3Sims == 3

\* Stage 1 eliminates a mean delta below this
Stage1Cutoff == -5

\* Stage 1 promotes at most this many candidates
Stage1Cap == 8

\* Stage 2 promotes at most this many candidates
Stage2Cap == 3

\* the final summary adopts a candidate only above this mean delta
AdoptDelta == 3

Candidates == 1..NumCands

\* the simulator: edge of the baseline strategy on seed j
BaseEdge(j) == 8 + 2 * (j % 3)

\* the simulator: advantage over the baseline, seed by seed, of the viable
\* candidates
LiveDeltas ==
    << << -5, -5, -5 >>, << 0, 0, 0 >>, << 1, -1, 0 >>,
       << 2, 2, 2 >>,    << 4, 6, 5 >>, << 3, 1, 2 >>,
       << 2, 2, 5 >>,    << -1, 3, 1 >>, << -4, 14, 2 >> >>

\* a candidate that is not viable loses 6 on every seed
DeltaOf(c, j) ==
    IF env[c] THEN LiveDeltas[((c - 1) % 9) + 1][((j - 1) % 3) + 1] ELSE -6

\* compile_source in Stage 1: the candidates that are not viable and have an
\* odd index do not compile
Compiles(c) == env[c] \/ c % 2 = 0

\* runner.run_match(baseline, ...) and extract_per_seed_edges at n sims
BaselineRun(n) == [j \in 1..n |-> FromInt(BaseEdge(j))]

\* runner.run_match(adapter, ...) and extract_per_seed_edges at n sims
CandidateRun(c, n) == [j \in 1..n |-> FromInt(BaseEdge(j) + DeltaOf(c, j))]

\* stats["def"] = cand_def
WithDef(stats, c) ==
    [n |-> stats.n, cand_mean |-> stats.cand_mean, base_mean |-> stats.base_mean,
     mean_delta |-> stats.mean_delta, se |-> stats.se, t_stat |-> stats.t_stat,
     p_value |-> stats.p_value, win_rate |-> stats.win_rate, def |-> c]

\* one iteration of a stage's loop: run the candidate, compare, tag
Evaluate(c, n, base) == WithDef(PairedCompare(CandidateRun(c, n), base), c)

\* results.sort(key=lambda s: s["mean_delta"], reverse=True): stable
RECURSIVE InsertByDelta(_, _)
InsertByDelta(sorted, s) ==
    IF sorted = << >> THEN << s >>
    ELSE IF FLt(Head(sorted).mean_delta, s.mean_delta) THEN << s >> \o sorted
    ELSE << Head(sorted) >> \o InsertByDelta(Tail(sorted), s)

RECURSIVE SortByDelta(_, _)
SortByDelta(rs, n) ==
    IF n = 0 THEN << >>
    ELSE InsertByDelta(SortByDelta(rs, n - 1), rs[n])

SortDesc(rs) == SortByDelta(rs, Len(rs))

\* xs[:k]
Take(xs, k) == SubSeq(xs, 1, IF Len(xs) < k THEN Len(xs) ELSE k)

\* a cutoff one lower
Survives1Lenient(s) == FGe(s.mean_delta, FromInt(Stage1Cutoff - 1))

\* s["mean_delta"] >= -5
Survives1(s) == FGe(s.mean_delta, FromInt(Stage1Cutoff))

\* a cap one higher
Promote1Wide(sorted) == Take(SelectSeq(sorted, Survives1), Stage1Cap + 1)

\* filtered[:8]
Promote1(sorted) == Take(SelectSeq(sorted, Survives1), Stage1Cap)

\* a zero counted as positive
NonNegative(s) == FGe(s.mean_delta, Zero)

\* s["mean_delta"] > 0
Positive(s) == FGt(s.mean_delta, Zero)

\* a zero counted as an improvement by the stop condition
AnyNonNegative(results) == \E k \in 1..Len(results) : FGe(results[k].mean_delta, Zero)

AnyPositive(results) == \E k \in 1..Len(results) : Positive(results[k])

\* [s for s in stage2_results if s["mean_delta"] > 0][:3]
Promote2(sorted) == Take(SelectSeq(sorted, Positive), Stage2Cap)

\* a recommendation that ignores t_stat
RecommendationByDelta(results) ==
    IF results = << >> THEN "baseline"
    ELSE IF FGt(results[1].mean_delta, FromInt(AdoptDelta)) THEN "adopt"
    ELSE IF FGt(results[1].mean_delta, Zero) THEN "marginal"
    ELSE "baseline"

\* the recommendation of _print_final_summary
Recommendation(results) ==
    IF results = << >> THEN "baseline"
    ELSE IF /\ FGt(results[1].mean_delta, FromInt(AdoptDelta))
            /\ FGt(FAbs(results[1].t_stat), FromRat(3, 2))
         THEN "adopt"
    ELSE IF FGt(results[1].mean_delta, Zero) THEN "marginal"
    ELSE "baseline"

\* _print_final_summary
FinalSummary(results, mean) ==
    [op |-> "final_summary", base_mean |-> mean, ranking |-> results,
     recommendation |-> Recommendation(results)]

\* a runner.run_match call that returned: who = 0 is the baseline
Request(st, who, n) == [stage |-> st, who |-> who, sims |-> n, ok |-> TRUE]

InitSearch ==
    /\ IdleElo
    /\ paired = NoCall
    /\ applied = NoCall
    /\ earlier = NoCall
    /\ env \in [Candidates -> BOOLEAN]
    /\ stage = "stage0"
    /\ error = "none"
    /\ idx = 0
    /\ base_edges = << >>
    /\ base_mean = Zero
    /\ stage1_results = << >>
    /\ promoted = << >>
    /\ base_edges2 = << >>
    /\ stage2_results = << >>
    /\ promoted2 = << >>
    /\ base_edges3 = << >>
    /\ stage3_results = << >>
    /\ requests = << >>
    /\ report = NoCall

Running == error = "none"

\* Stage 0: the baseline run at stage1_sims
Stage0 ==
    /\ Running /\ stage = "stage0"
    /\ base_edges' = BaselineRun(Stage1Sims)
    /\ base_mean' = Mean(base_edges')
    /\ requests' = Append(requests, Request(0, 0, Stage1Sims))
    /\ stage' = "stage1"
    /\ idx' = 1
    /\ UNCHANGED << eloVars, pcVars, env, error, stage1_results, promoted, base_edges2,
                    stage2_results, promoted2, base_edges3, stage3_results, report >>

\* Stage 1, a candidate that does not compile: caught, the loop continues
Stage1CompileFailed ==
    /\ Running /\ stage = "stage1" /\ idx <= NumCands
    /\ ~Compiles(idx)
    /\ idx' = idx + 1
    /\ UNCHANGED << eloVars, pcVars, env, stage, error, base_edges, base_mean,
                    stage1_results, promoted, base_edges2, stage2_results, promoted2,
                    base_edges3, stage3_results, requests, report >>

\* Stage 1, a candidate that compiles
Stage1Evaluate ==
    /\ Running /\ stage = "stage1" /\ idx <= NumCands
    /\ Compiles(idx)
    /\ requests' = Append(requests, Request(1, idx, Stage1Sims))
    /\ stage1_results' = Append(stage1_results, Evaluate(idx, Stage1Sims, base_edges))
    /\ idx' = idx + 1
    /\ UNCHANGED << eloVars, pcVars, env, stage, error, base_edges, base_mean, promoted,
                    base_edges2, stage2_results, promoted2, base_edges3,
                    stage3_results, report >>

\* the end of Stage 1: sort, eliminate, promote; stop when nothing is promoted
Stage1Finish ==
    /\ Running /\ stage = "stage1" /\ idx > NumCands
    /\ stage1_results' = SortDesc(stage1_results)
    /\ promoted' = Promote1(stage1_results')
    /\ IF promoted' = << >>
       THEN /\ report' = FinalSummary(<< >>, base_mean)
            /\ stage' = "done"
       ELSE /\ report' = report
            /\ stage' = "stage2"
    /\ idx' = 0
    /\ UNCHANGED << eloVars, pcVars, env, error, base_edges, base_mean, base_edges2,
                    stage2_results, promoted2, base_edges3, stage3_results, requests >>

\* Stage 2 without a baseline run of its own
Stage2BaselineCached ==
    /\ Running /\ stage = "stage2" /\ idx = 0
    /\ base_edges2' = BaselineRun(Stage2Sims)
    /\ idx' = 1
    /\ UNCHANGED << eloVars, pcVars, env, stage, error, base_edges, base_mean,
                    stage1_results, promoted, stage2_results, promoted2, base_edges3,
                    stage3_results, requests, report >>

\* Stage 2: the baseline run at stage2_sims
Stage2Baseline ==
    /\ Running /\ stage = "stage2" /\ idx = 0
    /\ base_edges2' = BaselineRun(Stage2Sims)
    /\ requests' = Append(requests, Request(2, 0, Stage2Sims))
    /\ idx' = 1
    /\ UNCHANGED << eloVars, pcVars, env, stage, error, base_edges, base_mean,
                    stage1_results, promoted, stage2_results, promoted2, base_edges3,
                    stage3_results, report >>

Stage2Evaluate ==
    /\ Running /\ stage = "stage2" /\ idx >= 1 /\ idx <= Len(promoted)
    /\ requests' = Append(requests, Request(2, promoted[idx].def, Stage2Sims))
    /\ stage2_results' =
           Append(stage2_results, Evaluate(promoted[idx].def, Stage2Sims, base_edges2))
    /\ idx' = idx + 1
    /\ UNCHANGED << eloVars, pcVars, env, stage, error, base_edges, base_mean,
                    stage1_results, promoted, base_edges2, promoted2, base_edges3,
                    stage3_results, report >>

\* the end of Stage 2: sort; stop when no mean delta is positive
Stage2Finish ==
    /\ Running /\ stage = "stage2" /\ idx > Len(promoted)
    /\ stage2_results' = SortDesc(stage2_results)
    /\ IF ~AnyPositive(stage2_results')
       THEN /\ report' = FinalSummary(stage2_results', base_mean)
            /\ promoted2' = promoted2
            /\ stage' = "done"
       ELSE /\ report' = report
            /\ promoted2' = Promote2(stage2_results')
            /\ stage' = "stage3"
    /\ idx' = 0
    /\ UNCHANGED << eloVars, pcVars, env, error, base_edges, base_mean, stage1_results,
                    promoted, base_edges2, base_edges3, stage3_results, requests >>

\* Stage 3 with a baseline run before every candidate
Stage3EvaluateRebased ==
    /\ Running /\ stage = "stage3" /\ idx >= 1 /\ idx <= Len(promoted2)
    /\ requests' = requests \o << Request(3, 0, Stage3Sims),
                                   Request(3, promoted2[idx].def, Stage3Sims) >>
    /\ stage3_results' =
           Append(stage3_results, Evaluate(promoted2[idx].def, Stage3Sims, base_edges3))
    /\ idx' = idx + 1
    /\ UNCHANGED << eloVars, pcVars, env, stage, error, base_edges, base_mean,
                    stage1_results, promoted, base_edges2, stage2_results, promoted2,
                    base_edges3, report >>

\* Stage 3: the baseline run at stage3_sims
Stage3Baseline ==
    /\ Running /\ stage = "stage3" /\ idx = 0
    /\ base_edges3' = BaselineRun(Stage3Sims)
    /\ requests' = Append(requests, Request(3, 0, Stage3Sims))
    /\ idx' = 1
    /\ UNCHANGED << eloVars, pcVars, env, stage, error, base_edges, base_mean,
                    stage1_results, promoted, base_edges2, stage2_results, promoted2,
                    stage3_results, report >>

Stage3Evaluate ==
    /\ Running /\ stage = "stage3" /\ idx >= 1 /\ idx <= Len(promoted2)
    /\ requests' = Append(requests, Request(3, promoted2[idx].def, Stage3Sims))
    /\ stage3_results' =
           Append(stage3_results, Evaluate(promoted2[idx].def, Stage3Sims, base_edges3))
    /\ idx' = idx + 1
    /\ UNCHANGED << eloVars, pcVars, env, stage, error, base_edges, base_mean,
                    stage1_results, promoted, base_edges2, stage2_results, promoted2,
                    base_edges3, report >>

\* the end of Stage 3: sort and report
Stage3Finish ==
    /\ Running /\ stage = "stage3" /\ idx > Len(promoted2)
    /\ stage3_results' = SortDesc(stage3_results)
    /\ report' = FinalSummary(stage3_results', Mean(base_edges3))
    /\ stage' = "done"
    /\ idx' = 0
    /\ UNCHANGED << eloVars, pcVars, env, error, base_edges, base_mean, stage1_results,
                    promoted, base_edges2, stage2_results, promoted2, base_edges3,
                    requests >>

\* compile_source raises in Stage 2 or Stage 3, where nothing catches it
CompileRaises ==
    /\ Running
    /\ \/ stage = "stage2" /\ idx >= 1 /\ idx <= Len(promoted)
       \/ stage = "stage3" /\ idx >= 1 /\ idx <= Len(promoted2)
    /\ error' = "compile"
    /\ UNCHANGED << eloVars, pcVars, env, stage, idx, base_edges, base_mean,
                    stage1_results, promoted, base_edges2, stage2_results, promoted2,
                    base_edges3, stage3_results, requests, report >>

\* the runner.run_match call the run is about to make
PendingRequest ==
    IF stage = "stage0" THEN Request(0, 0, Stage1Sims)
    ELSE IF stage = "stage1" THEN Request(1, idx, Stage1Sims)
    ELSE IF stage = "stage2"
         THEN Request(2, IF idx = 0 THEN 0 ELSE promoted[idx].def, Stage2Sims)
    ELSE Request(3, IF idx = 0 THEN 0 ELSE promoted2[idx].def, Stage3Sims)

\* a failed candidate run that is skipped like a compile failure of Stage 1
SimulatorFailureSkipped ==
    /\ Running
    /\ \/ stage = "stage1" /\ idx <= NumCands /\ Compiles(idx)
       \/ stage = "stage2" /\ idx >= 1 /\ idx <= Len(promoted)
       \/ stage = "stage3" /\ idx >= 1 /\ idx <= Len(promoted2)
    /\ requests' = Append(requests, [PendingRequest EXCEPT !.ok = FALSE])
    /\ idx' = idx + 1
    /\ UNCHANGED << eloVars, pcVars, env, stage, error, base_edges, base_mean,
                    stage1_results, promoted, base_edges2, stage2_results, promoted2,
                    base_edges3, stage3_results, report >>

\* runner.run_match raises: nothing catches it in any stage
SimulatorRaises ==
    /\ Running
    /\ \/ stage = "stage0"
       \/ stage = "stage1" /\ idx <= NumCands /\ Compiles(idx)
       \/ stage = "stage2" /\ idx <= Len(promoted)
       \/ stage = "stage3" /\ idx <= Len(promoted2)
    /\ requests' = Append(requests, [PendingRequest EXCEPT !.ok = FALSE])
    /\ error' = "simulator"
    /\ UNCHANGED << eloVars, pcVars, env, stage, idx, base_edges, base_mean,
                    stage1_results, promoted, base_edges2, stage2_results, promoted2,
                    base_edges3, stage3_results, report >>

NextSearch ==
    \/ Stage0
    \/ Stage1CompileFailed
    \/ Stage1Evaluate
    \/ Stage1Finish
    \/ Stage2Baseline
    \/ Stage2Evaluate
    \/ Stage2Finish
    \/ Stage3Baseline
    \/ Stage3Evaluate
    \/ Stage3Finish
    \/ CompileRaises
    \/ SimulatorRaises

\* one run of run_search over a population of viable and non-viable candidates
SpecSearch == InitSearch /\ [][NextSearch]_vars

\* the position of run_search in its code
position == << stage, idx, error >>

\* run_search has neither returned nor raised
AtStatement == Running /\ stage # "done"

\* the statement run_search is at is executed: the position changes
Advance ==
    /\ AtStatement
    /\ stage' \in {"stage0", "stage1", "stage2", "stage3", "done"}
    /\ idx' \in 0..(NumCands + 1)
    /\ error' \in {"none", "compile", "simulator"}
    /\ position' # position

\* run_search is one sequential thread: while it has neither returned nor
\* raised, the statement it is at is executed
SpecSearchFair == SpecSearch /\ WF_position(Advance)

\* ------------------------------------------------------------------------
\* Properties of EloRating
\* ------------------------------------------------------------------------
\* the record of a player before the last call (a player the call created
\* started from the default record)
Pre(name) ==
    IF name \in KnownNames(before) THEN Player(before, name)
    ELSE PlayerRating(name, initial_rating)

\* C1: after any sequence of get_rating and update_ratings calls with
\* non-negative scores (the same name on both sides included), every
\* PlayerRating satisfies wins + losses + draws = matches_played
C1_CountersAddUp ==
    \A i \in 1..Len(ratings) :
        ratings[i].wins + ratings[i].losses + ratings[i].draws
            = ratings[i].matches_played

\* a decisive match of a player against itself has been recorded
C1_Witness ==
    /\ call.op = "update_ratings"
    /\ call.player_a = call.player_b
    /\ call.score_a # call.score_b
    /\ Player(ratings, call.player_a).wins > 0
    /\ Player(ratings, call.player_a).losses > 0

\* C2: update_ratings with score_a + score_b = 0 on two existing players
\* changes no field of either player and returns their current ratings
C2_NoGamesNoOp ==
    ( /\ call.op = "update_ratings"
      /\ call.score_a + call.score_b = 0
      /\ call.player_a \in KnownNames(before)
      /\ call.player_b \in KnownNames(before) )
    => /\ Player(ratings, call.player_a) = Player(before, call.player_a)
       /\ Player(ratings, call.player_b) = Player(before, call.player_b)
       /\ ~raised
       /\ ret = << Player(before, call.player_a).rating,
                   Player(before, call.player_b).rating >>

\* a 0 : 0 or a 1 : -1 call on two players that have played and whose ratings differ
C2_Witness ==
    /\ call.op = "update_ratings"
    /\ call.score_a + call.score_b = 0
    /\ call.player_a # call.player_b
    /\ call.player_a \in KnownNames(before)
    /\ call.player_b \in KnownNames(before)
    /\ Player(ratings, call.player_a).matches_played > 0
    /\ Player(ratings, call.player_b).matches_played > 0
    /\ Player(ratings, call.player_a).rating # Player(ratings, call.player_b).rating

\* C3: no call on an EloRating raises, whatever the integer scores
C3_NeverRaises == ~raised

\* C4: get_k_factor returns 1.5 x base K below 10 matches, base K from 10 to
\* 29 matches and 0.75 x base K from 30 matches on
KInt == Floor(k_factor)

C4_KFactorSteps ==
    call.op = "get_k_factor" =>
        LET mp == Player(ratings, call.name).matches_played
        IN  /\ mp <= 9 => ret[1] = FromRat(3 * KInt, 2)
            /\ (10 <= mp /\ mp <= 29) => ret[1] = FromInt(KInt)
            /\ mp >= 30 => ret[1] = FromRat(3 * KInt, 4)

\* get_k_factor has been asked at one of the thresholds 9, 10, 29 and 30
C4_Witness ==
    /\ call.op = "get_k_factor"
    /\ Player(ratings, call.name).matches_played \in {9, 10, 29, 30}

\* C5: a tie with positive scores between two distinct players adds one draw
\* to both, leaves wins and losses alone and adds k_factor(player) *
\* (0.5 - expected) to each rating (margin multiplier 1.0, actual 0.5)
C5_TieHandling ==
    ( /\ call.op = "update_ratings"
      /\ call.player_a # call.player_b
      /\ call.score_a = call.score_b
      /\ call.score_a > 0 )
    => LET pa == Pre(call.player_a)
           pb == Pre(call.player_b)
           qa == Player(ratings, call.player_a)
           qb == Player(ratings, call.player_b)
           ea == ExpectedScore(pa.rating, pb.rating)
           eb == FSub(One, ea)
       IN  /\ qa.draws = pa.draws + 1 /\ qb.draws = pb.draws + 1
           /\ qa.wins = pa.wins /\ qb.wins = pb.wins
           /\ qa.losses = pa.losses /\ qb.losses = pb.losses
           /\ qa.rating = FAdd(pa.rating,
                               FMul(GetKFactor(k_factor, pa), FSub(Half, ea)))
           /\ qb.rating = FAdd(pb.rating,
                               FMul(GetKFactor(k_factor, pb), FSub(Half, eb)))

\* a tie between two distinct players whose ratings differed has moved them
C5_Witness ==
    /\ call.op = "update_ratings"
    /\ call.player_a # call.player_b
    /\ call.score_a = call.score_b
    /\ call.score_a > 0
    /\ Player(ratings, call.player_a).draws > 0
    /\ FLt(Player(ratings, call.player_a).rating, initial_rating)
    /\ FGt(Player(ratings, call.player_b).rating, initial_rating)

\* ------------------------------------------------------------------------
\* Properties of paired_compare
\* ------------------------------------------------------------------------
\* the deltas of the last paired_compare call
LastDeltas == Deltas(paired.cand_edges, paired.base_edges)

\* C6: paired_compare on two empty edge sequences returns cand_mean,
\* base_mean, mean_delta, se, t_stat and win_rate all equal to 0 and
\* p_value = 1.0
C6_EmptyAllZero ==
    (paired.op = "paired_compare" /\ paired.result.n = 0)
    => /\ paired.result.cand_mean = Zero
       /\ paired.result.base_mean = Zero
       /\ paired.result.mean_delta = Zero
       /\ paired.result.se = Zero
       /\ paired.result.t_stat = Zero
       /\ paired.result.win_rate = Zero
       /\ paired.result.p_value = One

\* C7: when all deltas are equal (zero sample variance; identical sequences
\* and n = 1 included) paired_compare returns se = 0, t_stat = 0 and
\* p_value = 1.0; for identical sequences also mean_delta = 0 and
\* win_rate = 0
C7_ZeroVarianceNeutral ==
    ( /\ paired.op = "paired_compare"
      /\ paired.result.n > 0
      /\ \A i \in 1..paired.result.n : LastDeltas[i] = LastDeltas[1] )
    => /\ paired.result.se = Zero
       /\ paired.result.t_stat = Zero
       /\ paired.result.p_value = One
       /\ paired.cand_edges = paired.base_edges
              => paired.result.mean_delta = Zero /\ paired.result.win_rate = Zero

\* ------------------------------------------------------------------------
\* Properties of run_search
\* ------------------------------------------------------------------------
\* Stage 1 has ended (promoted has been computed)
Stage1Done == stage \in {"stage2", "stage3", "done"}

\* Stage 2 has ended (the stop condition has been evaluated)
Stage2Done ==
    \/ stage = "stage3"
    \/ stage = "done" /\ promoted # << >>

DefsOf(results) == {results[k].def : k \in 1..Len(results)}

\* the candidates the simulator was asked to run in Stage 2 or Stage 3
RunAfterStage1 ==
    {requests[k].who : k \in {j \in 1..Len(requests) : requests[j].stage \in {2, 3}}}
        \ {0}

\* the Stage-1 results that pass the threshold
Survivors == {k \in 1..Len(stage1_results) :
                  FGe(stage1_results[k].mean_delta, FromInt(-5))}

\* no result below the threshold is among the promoted or the later runs
NoneBelow(promotedDefs, laterRuns) ==
    \A k \in 1..Len(stage1_results) :
        FLt(stage1_results[k].mean_delta, FromInt(-5))
            => /\ stage1_results[k].def \notin promotedDefs
               /\ stage1_results[k].def \notin laterRuns

\* every result exactly at the threshold is promoted when at most 8 survive
BoundaryKept(promotedDefs, survivors) ==
    \A k \in 1..Len(stage1_results) :
        ( stage1_results[k].mean_delta = FromInt(-5) /\ survivors <= 8 )
            => stage1_results[k].def \in promotedDefs

\* C8: a candidate whose Stage-1 mean_delta is below -5 is never promoted
\* from Stage 1 and never run in Stage 2 or Stage 3; a mean_delta of exactly
\* -5 is not eliminated by the threshold (it is promoted unless more than 8
\* candidates pass the threshold)
C8_CutoffElimination ==
    /\ NoneBelow(DefsOf(promoted), RunAfterStage1)
    /\ Stage1Done => BoundaryKept(DefsOf(promoted), Cardinality(Survivors))

\* Stage 2 has run a candidate that scored exactly -5 in Stage 1, next to an
\* evaluated candidate that scored -6
C8_Witness ==
    /\ stage = "stage2"
    /\ \E k \in 1..Len(stage1_results) :
           /\ stage1_results[k].mean_delta = FromInt(-5)
           /\ stage1_results[k].def \in DefsOf(promoted)
           /\ stage1_results[k].def \in RunAfterStage1
    /\ \E k \in 1..Len(stage1_results) : stage1_results[k].mean_delta = FromInt(-6)

\* promoted is the first min(8, number of survivors) of the survivors by
\* mean_delta descending
TopEight(survivors, promotedDefs) ==
    /\ Len(promoted) = (IF Cardinality(survivors) < 8 THEN Cardinality(survivors)
                        ELSE 8)
    /\ \A k \in 1..(Len(promoted) - 1) :
           FGe(promoted[k].mean_delta, promoted[k + 1].mean_delta)
    /\ \A k \in 1..Len(promoted) :
           \E j \in survivors : stage1_results[j] = promoted[k]
    /\ \A j \in survivors :
           stage1_results[j].def \notin promotedDefs
               => \A k \in 1..Len(promoted) :
                      FGe(promoted[k].mean_delta, stage1_results[j].mean_delta)

\* C9: the Stage-1 promoted list has min(8, number of survivors) members, is
\* ordered by mean_delta descending, consists of survivors, and no survivor
\* left out has a higher mean_delta than a promoted one
C9_Stage1TopEight == Stage1Done => TopEight(Survivors, DefsOf(promoted))

\* nine candidates passed the threshold and eight were promoted
C9_Witness ==
    /\ Stage1Done
    /\ Cardinality(Survivors) > 8
    /\ Len(promoted) = 8
    /\ FGt(promoted[1].mean_delta, promoted[8].mean_delta)

\* the Stage-2 results with a positive mean_delta
Positives == {k \in 1..Len(stage2_results) : FGt(stage2_results[k].mean_delta, Zero)}

\* C10: the candidates promoted from Stage 2 have a strictly positive Stage-2
\* mean_delta, are at most 3, were all promoted from Stage 1, are in
\* descending order and are the highest of the positive ones
C10_Stage2TopThree ==
    /\ Len(promoted2) <= 3
    /\ \A k \in 1..Len(promoted2) :
           /\ FGt(promoted2[k].mean_delta, Zero)
           /\ promoted2[k].def \in DefsOf(promoted)
           /\ \E j \in 1..Len(stage2_results) : stage2_results[j] = promoted2[k]
    /\ \A k \in 1..(Len(promoted2) - 1) :
           FGe(promoted2[k].mean_delta, promoted2[k + 1].mean_delta)
    /\ Stage2Done =>
           /\ Len(promoted2) = (IF Cardinality(Positives) < 3 THEN Cardinality(Positives)
                                ELSE 3)
           /\ \A k \in 1..Len(promoted2) : \A j \in Positives :
                  stage2_results[j].def \notin DefsOf(promoted2)
                      => FGe(promoted2[k].mean_delta, stage2_results[j].mean_delta)

\* three of more than three positive candidates were promoted to Stage 3,
\* and a candidate with a Stage-2 mean_delta of 0 was left behind
C10_Witness ==
    /\ stage = "stage3"
    /\ Cardinality(Positives) > 3
    /\ Len(promoted2) = 3
    /\ \E j \in 1..Len(stage2_results) :
           /\ stage2_results[j].mean_delta = Zero
           /\ stage2_results[j].def \notin DefsOf(promoted2)

\* the stages in which the simulator was asked to run something
StagesRequested == {requests[k].stage : k \in 1..Len(requests)}

\* C11: when no candidate evaluated in Stage 2 has a positive mean_delta,
\* run_search ends after Stage 2: nothing is run in Stage 3 (neither the
\* baseline nor a candidate) and the final report recommends the baseline
C11_Stage2Stop ==
    (Stage2Done /\ Positives = {})
    => /\ stage = "done"
       /\ report.op = "final_summary"
       /\ report.recommendation = "baseline"
       /\ report.ranking = stage2_results
       /\ 3 \notin StagesRequested
       /\ base_edges3 = << >>
       /\ stage3_results = << >>

\* Stage 2 evaluated a candidate with mean_delta 0 and one with a negative
\* mean_delta, none with a positive one, and the run is over
C11_Witness ==
    /\ stage = "done"
    /\ Len(stage2_results) > 1
    /\ Positives = {}
    /\ stage2_results[1].mean_delta = Zero
    /\ FLt(stage2_results[Len(stage2_results)].mean_delta, Zero)
    /\ report.recommendation = "baseline"

\* C12: when no candidate survives Stage 1 (each failed to compile or had a
\* mean_delta below -5), run_search ends with a report without candidates
\* that recommends the baseline, and nothing is run in Stage 2 or Stage 3
C12_NoSurvivorStop ==
    (Stage1Done /\ Survivors = {})
    => /\ stage = "done"
       /\ report.op = "final_summary"
       /\ report.ranking = << >>
       /\ report.recommendation = "baseline"
       /\ StagesRequested \subseteq {0, 1}
       /\ base_edges2 = << >> /\ stage2_results = << >>
       /\ base_edges3 = << >> /\ stage3_results = << >>

\* Stage 1 ended with some candidates that did not compile and the others
\* below the threshold
C12_Witness ==
    /\ stage = "done"
    /\ Survivors = {}
    /\ Len(stage1_results) > 0
    /\ Len(stage1_results) < NumCands
    /\ report.recommendation = "baseline"

\* the results of the last stage that ran to its end, when the report is made
LastStageResults ==
    IF promoted2 # << >> THEN stage3_results
    ELSE IF promoted # << >> THEN stage2_results
    ELSE << >>

\* the adoption rule applied to a result
Strong(best) ==
    /\ FGt(best.mean_delta, FromInt(3))
    /\ FGt(FAbs(best.t_stat), FromRat(3, 2))

\* C13: the final recommendation is decided by the first-ranked result of the
\* last completed stage: adopt iff mean_delta > 3 and |t_stat| > 1.5,
\* otherwise marginal iff mean_delta > 0, otherwise baseline (baseline also
\* when there is no result)
C13_Recommendation ==
    report.op = "final_summary" =>
        /\ report.ranking = LastStageResults
        /\ report.recommendation \in {"adopt", "marginal", "baseline"}
        /\ report.ranking = << >> => report.recommendation = "baseline"
        /\ report.ranking # << >> =>
               /\ \A k \in 1..Len(report.ranking) :
                      FGe(report.ranking[1].mean_delta, report.ranking[k].mean_delta)
               /\ report.recommendation = "adopt" <=> Strong(report.ranking[1])
               /\ report.recommendation = "marginal" <=>
                      (~Strong(report.ranking[1])
                           /\ FGt(report.ranking[1].mean_delta, Zero))
               /\ report.recommendation = "baseline" <=>
                      (~Strong(report.ranking[1])
                           /\ ~FGt(report.ranking[1].mean_delta, Zero))

\* the best Stage-3 result has a mean_delta above 3 and a t_stat within 1.5,
\* and the report calls it a marginal improvement
C13_Witness ==
    /\ report.op = "final_summary"
    /\ stage3_results # << >>
    /\ FGt(report.ranking[1].mean_delta, FromInt(3))
    /\ FLe(FAbs(report.ranking[1].t_stat), FromRat(3, 2))
    /\ FGt(FAbs(report.ranking[1].t_stat), Zero)
    /\ report.recommendation = "marginal"

\* C14: a compilation failure of a candidate never ends the run, in whichever
\* stage it happens: it is caught and the stage goes on with the next
\* candidate
C14_CompileFailureCaught == error # "compile"

\* the stage whose baseline run a candidate run of stage st is paired with
BaselineStageOf(st) == IF st = 1 THEN 0 ELSE st

SimsOf(st) == IF st <= 1 THEN Stage1Sims ELSE IF st = 2 THEN Stage2Sims ELSE Stage3Sims

\* every result was computed at n sims against a baseline of mean base_m
PairedAt(results, n, base_m) ==
    \A k \in 1..Len(results) :
        /\ results[k].n = n
        /\ results[k].base_mean = base_m

\* every result of a stage was computed at n sims against the baseline edges
\* base of that stage
PairedWith(results, n, base) ==
    results # << >> => Len(base) = n /\ PairedAt(results, n, Mean(base))

\* C15: every comparison of stage k pairs a candidate run at the stage-k
\* sample count with the baseline run made for stage k at the same count
\* (Stage 0's run for Stage 1), and that baseline run precedes every
\* candidate run of the stage
C15_StageBaselines ==
    /\ PairedWith(stage1_results, Stage1Sims, base_edges)
    /\ PairedWith(stage2_results, Stage2Sims, base_edges2)
    /\ PairedWith(stage3_results, Stage3Sims, base_edges3)
    /\ \A k \in 1..Len(requests) :
           /\ requests[k].sims = SimsOf(requests[k].stage)
           /\ requests[k].who # 0 =>
                  \E j \in 1..(k - 1) :
                      /\ requests[j].who = 0
                      /\ requests[j].ok
                      /\ requests[j].stage = BaselineStageOf(requests[k].stage)
                      /\ requests[j].sims = requests[k].sims

\* Stage 3 has compared a candidate with its own baseline run, whose mean
\* differs from that of the Stage-2 baseline run
C15_Witness ==
    /\ stage3_results # << >>
    /\ stage2_results # << >>
    /\ stage3_results[1].base_mean = Mean(base_edges3)
    /\ stage3_results[1].base_mean # stage2_results[1].base_mean
    /\ stage3_results[1].n > stage2_results[1].n

\* C16: a run_match call that raises ends the run: it is the last call made,
\* no report is produced and the run is marked as failed
C16_SimulatorFailureFatal ==
    \A k \in 1..Len(requests) :
        ~requests[k].ok =>
            /\ k = Len(requests)
            /\ error = "simulator"
            /\ report = NoCall

\* a candidate run of Stage 2 raised
C16_Witness ==
    /\ error = "simulator"
    /\ requests # << >>
    /\ ~requests[Len(requests)].ok
    /\ requests[Len(requests)].stage = 2
    /\ requests[Len(requests)].who # 0
    /\ stage2_results # << >>

\* ------------------------------------------------------------------------
\* Properties of margin_multiplier and expected_score
\* ------------------------------------------------------------------------
\* a margin_multiplier call on valid scores
ValidMargin(c) ==
    /\ c.op = "margin_multiplier"
    /\ 0 <= c.loser_score
    /\ c.loser_score <= c.winner_score
    /\ c.total_games = c.winner_score + c.loser_score

\* is the margin of call c at most the margin of call d (both with games)?
MarginLe(c, d) ==
    (c.winner_score - c.loser_score) * d.total_games
        <= (d.winner_score - d.loser_score) * c.total_games

\* C17: with mov_factor >= 0, margin_multiplier on valid scores returns a
\* value >= 1.0, exactly 1.0 when total_games = 0 or the margin is zero, and
\* of two calls the one with the larger margin never returns the smaller value
C17_MarginFloorMonotone ==
    mov_factor.m >= 0 =>
        /\ ValidMargin(applied) =>
               /\ ~applied.raised
               /\ FGe(applied.result, One)
               /\ ( applied.total_games = 0
                    \/ applied.winner_score = applied.loser_score )
                  => applied.result = One
        /\ ( /\ ValidMargin(applied) /\ applied.total_games > 0
             /\ ValidMargin(earlier) /\ earlier.total_games > 0
             /\ MarginLe(earlier, applied) )
           => FLe(earlier.result, applied.result)

\* two calls with different positive margins returned different values above 1
C17_Witness ==
    /\ mov_factor.m > 0
    /\ ValidMargin(applied) /\ ValidMargin(earlier)
    /\ earlier.loser_score > 0
    /\ earlier.winner_score > earlier.loser_score
    /\ applied.loser_score > 0
    /\ MarginLe(earlier, applied) /\ ~MarginLe(applied, earlier)
    /\ FGt(earlier.result, One)
    /\ FLt(earlier.result, applied.result)

\* the last two expected_score calls were made on swapped ratings
SwappedCalls ==
    /\ applied.op = "expected_score"
    /\ earlier.op = "expected_score"
    /\ applied.rating_a = earlier.rating_b
    /\ applied.rating_b = earlier.rating_a

\* the expected scores computed by the last update_ratings call, if any,
\* from the ratings the two players had when it was made
UpdateExpected ==
    IF call.op = "update_ratings"
    THEN ExpectedOf(GetRating(GetRating(before, call.player_a, initial_rating),
                              call.player_b, initial_rating),
                    call.player_a, call.player_b, call.score_a, call.score_b)
    ELSE << >>

\* the distance between 1.0 and the next larger floating-point number
Epsilon == Lit(1, 1 - Prec)

C18_WitnessUpdate ==
    /\ UpdateExpected # << >>
    /\ FLt(UpdateExpected[1], Half)
    /\ FGt(UpdateExpected[2], Half)

\* ------------------------------------------------------------------------
\* Properties of get_leaderboard and get_rating
\* ------------------------------------------------------------------------
\* C19: get_leaderboard returns every player of the rating map exactly once,
\* by rating descending, players of equal rating in the order in which they
\* were created, and leaves the rating map as it was
C19_Leaderboard ==
    call.op = "get_leaderboard" =>
        /\ Len(ret) = Len(ratings)
        /\ \A i \in 1..Len(ratings) :
               \E j \in 1..Len(ret) :
                   /\ ret[j] = ratings[i]
                   /\ \A k \in 1..Len(ret) : ret[k].name = ratings[i].name => k = j
        /\ \A j \in 1..Len(ret) : \A k \in (j + 1)..Len(ret) :
               /\ FGe(ret[j].rating, ret[k].rating)
               /\ ret[j].rating = ret[k].rating =>
                      IndexOf(ratings, ret[j].name) < IndexOf(ratings, ret[k].name)
        /\ ratings = before

\* a leaderboard of four players: the third created leads, the first two
\* are tied behind it
C19_Witness ==
    /\ call.op = "get_leaderboard"
    /\ Len(ret) = 4
    /\ ret[1] = ratings[3]
    /\ ret[2] = ratings[1]
    /\ ret[3] = ratings[2]
    /\ ret[2].rating = ret[3].rating
    /\ FGt(ret[1].rating, ret[2].rating)
    /\ FGt(ret[3].rating, ret[4].rating)

\* C20: get_rating on an unknown name adds exactly one PlayerRating with the
\* configured initial rating and zero counters, and on a known name returns
\* the existing record and changes nothing; no call removes a name, and only
\* update_ratings changes a field of an existing player
C20_LazyCreation ==
    /\ ( call.op = "get_rating" /\ call.name \notin KnownNames(before) ) =>
           /\ ratings = Append(before, ret[1])
           /\ ret[1].name = call.name
           /\ ret[1].rating = initial_rating
           /\ ret[1].matches_played = 0
           /\ ret[1].wins = 0
           /\ ret[1].losses = 0
           /\ ret[1].draws = 0
    /\ ( call.op = "get_rating" /\ call.name \in KnownNames(before) ) =>
           /\ ratings = before
           /\ ret = << Player(before, call.name) >>
    /\ KnownNames(before) \subseteq KnownNames(ratings)
    /\ call.op # "update_ratings" =>
           \A n \in KnownNames(before) : Player(ratings, n) = Player(before, n)

\* get_rating created a player on an object whose other players have played
C20_Witness ==
    /\ call.op = "get_rating"
    /\ call.name \notin KnownNames(before)
    /\ Len(before) = 2
    /\ before[1].wins + before[2].wins = 1
    /\ Len(ratings) = 3
    /\ ratings[3] = ret[1]

\* get_rating returned the record of a player that has played
C20_WitnessKnown ==
    /\ call.op = "get_rating"
    /\ call.name \in KnownNames(before)
    /\ ret[1].matches_played > 0
    /\ ret[1].rating # initial_rating

\* ------------------------------------------------------------------------
\* Further properties of paired_compare
\* ------------------------------------------------------------------------
\* a floating-point number in [0, 1] (NaN is not)
InUnit(x) == ~x.nan /\ FGe(x, Zero) /\ FLe(x, One)

\* the result r has p_value and win_rate in [0, 1], and t_stat has the sign
\* of mean_delta when se > 0
WellFormed(r) ==
    /\ InUnit(r.p_value)
    /\ InUnit(r.win_rate)
    /\ FGt(r.se, Zero) => Sgn(r.t_stat.m) = Sgn(r.mean_delta.m)

\* C21: every result of paired_compare on equal-length sequences, n >= 0,
\* has p_value in [0, 1], win_rate in [0, 1] and, when se > 0, a t_stat of
\* the sign of mean_delta
C21_ResultRanges ==
    paired.op = "paired_compare" => WellFormed(paired.result)

\* the same for n >= 1 only
C21_ResultRangesNonEmpty ==
    ( paired.op = "paired_compare" /\ paired.result.n >= 1 )
        => WellFormed(paired.result)

\* the integer an edge of the model stands for
IntOf(x) == x.m * Pow2(x.e)

\* cand_i - base_i of the last call, exactly
ExactDelta(i) == IntOf(paired.cand_edges[i]) - IntOf(paired.base_edges[i])

RECURSIVE SumTo(_, _)
SumTo(F(_), n) == IF n = 0 THEN 0 ELSE SumTo(F, n - 1) + F(n)

AbsDelta(i) == Abs(ExactDelta(i))

\* the seeds the candidate won
Wins == {i \in 1..paired.result.n : ExactDelta(i) > 0}

\* the exponent shift that makes x an integer
ShiftOf(x) == IF x.e < 0 THEN -x.e ELSE 0

\* |x - total / n| <= 2^(1 - Prec) * spread, for a float x and integers
\* total and spread, in integer arithmetic
WithinRounding(x, total, spread, n, k) ==
    Abs(x.m * Pow2(x.e + k) * n - total * Pow2(k)) * Pow2(Prec - 1)
        <= spread * n * Pow2(k)

\* C22 as stated: for n >= 1, win_rate is the number of seeds with
\* cand_i - base_i > 0 divided by n, and mean_delta is the arithmetic mean of
\* the per-seed deltas
C22_WinRateAndMeanExact ==
    ( paired.op = "paired_compare" /\ paired.result.n >= 1 ) =>
        /\ paired.result.win_rate = FromRat(Cardinality(Wins), paired.result.n)
        /\ paired.result.mean_delta
               = FromRat(SumTo(ExactDelta, paired.result.n), paired.result.n)

\* C22 amended: for n >= 1, win_rate is the number of seeds with
\* cand_i - base_i > 0 divided by n, and mean_delta is the arithmetic mean of
\* the per-seed deltas up to the rounding of the summation (an error of at
\* most epsilon times the sum of the absolute deltas)
C22_WinRateAndMean ==
    ( paired.op = "paired_compare" /\ paired.result.n >= 1 ) =>
        /\ paired.result.win_rate = FromRat(Cardinality(Wins), paired.result.n)
        /\ ~paired.result.mean_delta.nan
        /\ WithinRounding(paired.result.mean_delta,
                          SumTo(ExactDelta, paired.result.n),
                          SumTo(AbsDelta, paired.result.n),
                          paired.result.n, ShiftOf(paired.result.mean_delta))

\* the known case: deltas 2, 4 and 0 give mean_delta = 2 and win_rate = 2/3
C22_Witness ==
    /\ paired.op = "paired_compare"
    /\ paired.cand_edges = KnownCand
    /\ paired.base_edges = KnownBase
    /\ paired.result.mean_delta = Two
    /\ paired.result.win_rate = FromRat(2, 3)
    /\ Cardinality(Wins) = 2

\* three equal deltas whose computed mean is not their value
C22_WitnessRounded ==
    /\ paired.op = "paired_compare"
    /\ paired.result.n = 3
    /\ \A i \in 1..3 : ExactDelta(i) = 343
    /\ paired.result.mean_delta # FromInt(343)

\* ------------------------------------------------------------------------
\* Further properties of update_ratings
\* ------------------------------------------------------------------------
\* the last call was update_ratings on two distinct players with a positive
\* number of games, and it returned
Played ==
    /\ call.op = "update_ratings"
    /\ call.player_a # call.player_b
    /\ call.score_a + call.score_b # 0
    /\ ~raised

\* the K-factor of a player with mp matches on entry
KOnEntry(mp) ==
    IF mp <= 9 THEN FMul(k_factor, FromRat(3, 2))
    ELSE IF mp <= 29 THEN k_factor
    ELSE FMul(k_factor, FromRat(3, 4))

\* a rating r moved by K * multiplier * (actual - expected)
Moved(r, k, multiplier, actual, expected) ==
    FAdd(r, FMul(FMul(k, multiplier), FSub(actual, expected)))

\* both new ratings follow from the records pa and pb of the two players on
\* entry and the expected score ea of the first player on entry
FromEntryState(pa, pb, ea, multiplier, actual) ==
    /\ Player(ratings, call.player_a).rating
           = Moved(pa.rating, KOnEntry(pa.matches_played), multiplier, actual[1], ea)
    /\ Player(ratings, call.player_b).rating
           = Moved(pb.rating, KOnEntry(pb.matches_played), multiplier, actual[2],
                   FSub(One, ea))

\* C23: update_ratings computes both rating changes from the state before
\* the call: the expected scores from the two ratings on entry and each
\* K-factor from the player's matches_played on entry (1.5 x K up to 9
\* matches on entry, base K up to 29)
C23_ChangesFromEntryState ==
    Played =>
        FromEntryState(Pre(call.player_a), Pre(call.player_b),
                       ExpectedScore(Pre(call.player_a).rating,
                                     Pre(call.player_b).rating),
                       Multiplier(mov_factor, call.score_a, call.score_b),
                       Actual(call.score_a, call.score_b))

\* a decisive match between two players, the first of them with 29 matches
\* on entry, has moved both ratings
C23_Witness ==
    /\ Played
    /\ call.score_a # call.score_b
    /\ Pre(call.player_a).matches_played = 29
    /\ Player(ratings, call.player_a).rating # Pre(call.player_a).rating
    /\ Player(ratings, call.player_b).rating # Pre(call.player_b).rating
    /\ Player(ratings, call.player_a).matches_played = 30

\* the higher scorer w and the lower scorer l of the last call: w gained one
\* win, l one loss, both one match, and no other counter of any player moved
DecisiveCounters(w, l) ==
    /\ Player(ratings, w).wins = Pre(w).wins + 1
    /\ Player(ratings, w).losses = Pre(w).losses
    /\ Player(ratings, l).losses = Pre(l).losses + 1
    /\ Player(ratings, l).wins = Pre(l).wins
    /\ \A n \in {w, l} :
           /\ Player(ratings, n).draws = Pre(n).draws
           /\ Player(ratings, n).matches_played = Pre(n).matches_played + 1
    /\ \A n \in KnownNames(before) \ {w, l} :
           Player(ratings, n) = Player(before, n)

\* 1 for the higher scorer w, 0 for the other player
ActualOf(n, w) == IF n = w THEN One ELSE Zero

\* the ratings of the two players moved with an actual score of 1 for the
\* higher scorer w and 0 for the lower scorer, against the expected scores
\* ea and 1 - ea
DecisiveActual(w, multiplier, ea) ==
    /\ Player(ratings, call.player_a).rating
           = Moved(Pre(call.player_a).rating,
                   GetKFactor(k_factor, Pre(call.player_a)), multiplier,
                   ActualOf(call.player_a, w), ea)
    /\ Player(ratings, call.player_b).rating
           = Moved(Pre(call.player_b).rating,
                   GetKFactor(k_factor, Pre(call.player_b)), multiplier,
                   ActualOf(call.player_b, w), FSub(One, ea))

Winner == IF call.score_a > call.score_b THEN call.player_a ELSE call.player_b

Loser == IF call.score_a > call.score_b THEN call.player_b ELSE call.player_a

\* C24: a decisive match (non-negative scores) between two distinct players
\* adds one win to the higher scorer and one loss to the lower scorer, one
\* match to each, changes no other counter and scores the winner 1 and the
\* loser 0
C24_DecisiveOutcome ==
    ( /\ call.op = "update_ratings"
      /\ call.player_a # call.player_b
      /\ call.score_a >= 0 /\ call.score_b >= 0
      /\ call.score_a # call.score_b )
    => /\ ~raised
       /\ DecisiveCounters(Winner, Loser)
       /\ DecisiveActual(Winner,
                         Multiplier(mov_factor, call.score_a, call.score_b),
                         ExpectedScore(Pre(call.player_a).rating,
                                       Pre(call.player_b).rating))

\* the second player won 2 : 1 on an object that knows a third player
C24_Witness ==
    /\ call.op = "update_ratings"
    /\ call.player_a # call.player_b
    /\ call.score_a = 1 /\ call.score_b = 2
    /\ Len(ratings) > 2
    /\ Player(ratings, call.player_b).wins = Pre(call.player_b).wins + 1
    /\ Player(ratings, call.player_a).losses = Pre(call.player_a).losses + 1
    /\ FGt(Player(ratings, call.player_b).rating, Pre(call.player_b).rating)

\* ------------------------------------------------------------------------
\* Further properties of run_search
\* ------------------------------------------------------------------------
\* the baseline edges of the last stage that ran
LastBaseline ==
    IF base_edges3 # << >> THEN base_edges3
    ELSE IF base_edges2 # << >> THEN base_edges2
    ELSE base_edges

\* C25: the baseline mean of the final summary is the mean of the baseline
\* run of the last stage that ran: of the Stage-2 run when the search stops
\* after Stage 2, of the Stage-3 run when it finishes Stage 3
C25_SummaryBaseline ==
    report.op = "final_summary" => report.base_mean = Mean(LastBaseline)

\* ------------------------------------------------------------------------
\* Zero-sum updates
\* ------------------------------------------------------------------------
\* the K-factor bracket of a player with mp matches
Bracket(mp) == IF mp < 10 THEN 1 ELSE IF mp < 30 THEN 2 ELSE 3

SameBracket ==
    Bracket(Pre(call.player_a).matches_played)
        = Bracket(Pre(call.player_b).matches_played)

\* K * multiplier * (actual - expected)
Amount(k, multiplier, actual, expected) ==
    FMul(FMul(k, multiplier), FSub(actual, expected))

\* the amounts the last update_ratings call added to the two ratings
AmountsOf(ea, multiplier, actual) ==
    << Amount(GetKFactor(k_factor, Pre(call.player_a)), multiplier, actual[1], ea),
       Amount(GetKFactor(k_factor, Pre(call.player_b)), multiplier, actual[2],
              ExpectedB(ea)) >>

Amounts ==
    AmountsOf(ExpectedScore(Pre(call.player_a).rating, Pre(call.player_b).rating),
              Multiplier(mov_factor, call.score_a, call.score_b),
              Actual(call.score_a, call.score_b))

\* the sum of the two players' ratings in the rating map rs
RatingSum(rs) ==
    IntOf(Player(rs, call.player_a).rating) + IntOf(Player(rs, call.player_b).rating)

RatingSumBefore ==
    IntOf(Pre(call.player_a).rating) + IntOf(Pre(call.player_b).rating)

\* the two K-factors of the last call
KPair == << GetKFactor(k_factor, Pre(call.player_a)),
            GetKFactor(k_factor, Pre(call.player_b)) >>

\* C26 as stated: in equal brackets the amount added to the first rating is
\* the negation of the amount added to the second and the sum of the two
\* ratings is conserved; in different brackets the amounts have opposite
\* signs and magnitudes in the ratio of the two K-factors
ZeroSumExact(am, ks) ==
    IF SameBracket
    THEN am[1] = FNeg(am[2]) /\ RatingSum(ratings) = RatingSumBefore
    ELSE /\ Sgn(am[1].m) = -Sgn(am[2].m)
         /\ FMul(am[1], ks[2]) = FNeg(FMul(am[2], ks[1]))

C26_ZeroSumExact == Played => ZeroSumExact(Amounts, KPair)

\* |x| <= 2^(k - Prec) * |y|
Small(x, k, y) == FLe(FAbs(x), FMul(Lit(1, k - Prec), FAbs(y)))

\* K * multiplier of the first player
Scale(ks) == FMul(ks[1], Multiplier(mov_factor, call.score_a, call.score_b))

\* C26 amended: in equal brackets the two amounts are negations of each other
\* up to rounding (their sum is at most 2 epsilon K multiplier) and the sum
\* of the two ratings is conserved up to the rounding of the two ratings; in
\* different brackets the amounts do not have the same sign and their
\* magnitudes are in the ratio of the K-factors up to rounding
ZeroSum(am, ks) ==
    IF SameBracket
    THEN /\ Small(FAdd(am[1], am[2]), 2, Scale(ks))
         /\ Small(FromInt(RatingSum(ratings) - RatingSumBefore), 1,
                  FAdd(FromInt(RatingSum(ratings)), FMul(Two, Scale(ks))))
    ELSE /\ Sgn(am[1].m) * Sgn(am[2].m) <= 0
         /\ Small(FAdd(FMul(am[1], ks[2]), FMul(am[2], ks[1])), 3,
                  FMul(Scale(ks), ks[2]))

C26_ZeroSum == Played => ZeroSum(Amounts, KPair)

\* a match between players of equal brackets whose two amounts are not exact
\* negations of each other
C26_Witness ==
    /\ Played
    /\ SameBracket
    /\ Amounts[1] # FNeg(Amounts[2])
    /\ Amounts[1].m # 0

\* a decisive match between players of different brackets
C26_WitnessBrackets ==
    /\ Played
    /\ ~SameBracket
    /\ call.score_a # call.score_b
    /\ Amounts[1].m # 0

\* ------------------------------------------------------------------------
\* Frame of the EloRating methods
\* ------------------------------------------------------------------------
\* the players of rs other than the two of the call c are the same in rs2
OthersKept(rs, rs2, c) ==
    \A n \in KnownNames(rs) \ {c.player_a, c.player_b} :
        n \in KnownNames(rs2) /\ Player(rs2, n) = Player(rs, n)

\* C27: update_ratings(a, b, ...) leaves every player other than a and b
\* unchanged in all fields, and expected_score, get_k_factor,
\* margin_multiplier and get_leaderboard leave the rating map unchanged
C27_Frame ==
    [][ /\ ( nOps' # nOps /\ call'.op = "update_ratings" )
               => OthersKept(ratings, ratings', call')
        /\ ( nOps' # nOps /\ call'.op \in {"get_k_factor", "get_leaderboard"} )
               => ratings' = ratings
        /\ applied' # applied => ratings' = ratings ]_vars

\* update_ratings moved two players on an object that knows a third, whose
\* record, with a match played, is as before
C27_Witness ==
    /\ Played
    /\ call.score_a # call.score_b
    /\ \E n \in KnownNames(before) \ {call.player_a, call.player_b} :
           /\ Player(ratings, n) = Player(before, n)
           /\ Player(ratings, n).matches_played > 0
    /\ Player(ratings, call.player_a).rating # Pre(call.player_a).rating

\* get_leaderboard returned an order that is not the order of the rating map
C27_WitnessLeaderboard ==
    /\ call.op = "get_leaderboard"
    /\ Len(ret) > 1
    /\ ret # ratings
    /\ ratings = before

\* ------------------------------------------------------------------------
\* Termination and resources of run_search
\* ------------------------------------------------------------------------
StageNo(st) ==
    IF st = "stage0" THEN 0
    ELSE IF st = "stage1" THEN 1
    ELSE IF st = "stage2" THEN 2
    ELSE IF st = "stage3" THEN 3
    ELSE 4

\* the requests of one stage, and its baseline requests
RequestsOf(reqs, st) == SelectSeq(reqs, LAMBDA r : r.stage = st)
BaselinesOf(reqs, st) == SelectSeq(reqs, LAMBDA r : r.stage = st /\ r.who = 0)

\* 1 baseline + at most N candidates in Stages 0-1, 1 + at most 8 in Stage 2,
\* 1 + at most 3 in Stage 3, the stages in order
RequestBudget(reqs) ==
    /\ Len(reqs) <= NumCands + 14
    /\ Len(RequestsOf(reqs, 0)) <= 1
    /\ Len(RequestsOf(reqs, 1)) <= NumCands
    /\ Len(RequestsOf(reqs, 2)) <= 1 + Stage1Cap
    /\ Len(RequestsOf(reqs, 3)) <= 1 + Stage2Cap
    /\ \A st \in 0..3 : Len(BaselinesOf(reqs, st)) <= 1
    /\ \A i \in 1..Len(reqs) : \A j \in i..Len(reqs) : reqs[i].stage <= reqs[j].stage

\* a step stays in its stage, or leaves it for the next one or for the end
StageOrder ==
    \/ stage' = stage
    \/ /\ stage # "done"
       /\ StageNo(stage') = StageNo(stage) + 1 \/ stage' = "done"

\* C28: provided every Compiler and Simulator call returns, run_search always
\* terminates, passes through the stages in the fixed order 0, 1, 2, 3 with
\* no stage repeated or revisited, and issues at most N + 14 Simulator
\* requests for N candidates (1 + at most N in Stages 0-1, 1 + at most 8 in
\* Stage 2, 1 + at most 3 in Stage 3), one request at a time
C28_Termination ==
    /\ [](RequestBudget(requests))
    /\ [][StageOrder /\ Len(requests') <= Len(requests) + 1]_vars
    /\ <>(stage = "done" \/ ~Running)

\* a run that went through all four stages with every candidate compiling,
\* eight promoted to Stage 2 and three to Stage 3: N + 14 requests
C28_Witness ==
    /\ stage = "done" /\ Running
    /\ Len(requests) = NumCands + 14
    /\ Len(promoted) = Stage1Cap
    /\ Len(promoted2) = Stage2Cap
    /\ report.op = "final_summary"

====
